---- MODULE Spec2Model ----
(***************************************************************************)
(* The MVCC transaction layer of src/storage/mvcc.rs over an ordered,      *)
(* byte-keyed store.  Keys and the NextVersion value are the byte strings  *)
(* bincode::serialize produces (u32 little-endian variant index, u64       *)
(* little-endian integers, u64 little-endian length before a Vec<u8>), so  *)
(* that the byte order of the store, its prefix scans and its range scans  *)
(* are those of the program.                                               *)
(*                                                                         *)
(* Every public operation holds the storage mutex for the whole call, so   *)
(* each is one atomic action.  An instance is used until it commits or     *)
(* rolls back and not after.  Version arithmetic is that of u64; the runs  *)
(* modelled stay far below u64::MAX, where next_version + 1 would          *)
(* overflow.                                                               *)
(***************************************************************************)
EXTENDS Integers, Sequences, FiniteSets, TLC

VARIABLES
    storage,    \* the shared store: encoded key bytes -> value bytes
    txns,       \* engine instances in begin order: current_version, active_versions, phase
    userKeys,   \* the logical keys the callers of this run write and read
    log,        \* per instance: when it was resolved and what it wrote (history)
    probe       \* the keys handed to the key codec and what it made of them

vars == <<storage, txns, userKeys, log, probe>>

\* ------------------------------------------------------------------ bounds

\* Number of engine instances one run opens.
MaxTxns == 3

\* ------------------------------------------------------------- byte strings

RECURSIVE LEBytes(_, _)
\* The n low bytes of v, least significant first (bincode's fixed-width
\* little-endian integer encoding).
LEBytes(v, n) == IF n = 0 THEN <<>> ELSE <<v % 256>> \o LEBytes(v \div 256, n - 1)

RECURSIVE FromLE(_)
\* The integer a little-endian byte string stands for.
FromLE(b) == IF b = <<>> THEN 0 ELSE b[1] + 256 * FromLE(Tail(b))

\* An encoding that keeps the low byte of the version only.
VersionEncodeLowByte(v) == LEBytes(v % 256, 8)

\* Version::encode: the u64 inside the newtype, 8 bytes little-endian.
VersionEncode(v) == LEBytes(v, 8)

\* Version::decode.
VersionDecode(b) == FromLE(b)

\* Version::max() = u64::MAX, which only ever occurs encoded, as a scan bound.
VersionMaxBytes == [i \in 1..8 |-> 255]

\* Version::min() = 0.
VersionMin == 0

\* bincode's encoding of a Vec<u8>: its length as a u64, then its bytes.
BytesEncode(k) == LEBytes(Len(k), 8) \o k

\* bincode's encoding of an enum variant index.
VariantTag(n) == LEBytes(n, 4)

IsPrefixOf(p, b) == Len(p) <= Len(b) /\ SubSeq(b, 1, Len(p)) = p

\* Lexicographic order on byte strings, the order of the store (Vec<u8>: Ord).
RECURSIVE LexLess(_, _)
LexLess(a, b) ==
    IF b = <<>> THEN FALSE
    ELSE IF a = <<>> THEN TRUE
    ELSE IF a[1] # b[1] THEN a[1] < b[1]
    ELSE LexLess(Tail(a), Tail(b))

LexLeq(a, b) == a = b \/ LexLess(a, b)

\* ------------------------------------------------------------ key encoding

\* MvccKey, the logical keys of the four families.
KeyNextVersion == [tag |-> "NextVersion"]
KeyTxnActive(v) == [tag |-> "TxnActive", version |-> v]
KeyTxnWrite(v, k) == [tag |-> "TxnWrite", version |-> v, key |-> k]
KeyVersion(k, v) == [tag |-> "Version", key |-> k, version |-> v]

\* MvccKey::Version(key, version).encode() with the version given as bytes.
VersionKeyBytes(k, vbytes) == VariantTag(3) \o BytesEncode(k) \o vbytes

\* MvccKey::encode.
MvccKeyEncode(key) ==
    CASE key.tag = "NextVersion" -> VariantTag(0)
      [] key.tag = "TxnActive" -> VariantTag(1) \o VersionEncode(key.version)
      [] key.tag = "TxnWrite" ->
            VariantTag(2) \o VersionEncode(key.version) \o BytesEncode(key.key)
      [] key.tag = "Version" -> VersionKeyBytes(key.key, VersionEncode(key.version))

Invalid == [tag |-> "Invalid"]

\* MvccKey::decode: the logical key a byte string stands for, Invalid when
\* bincode would fail (too few bytes, or an unknown variant index).  Like
\* bincode::deserialize it does not reject trailing bytes.
MvccKeyDecode(b) ==
    IF Len(b) < 4 THEN Invalid
    ELSE LET tag == FromLE(SubSeq(b, 1, 4))
             rest == SubSeq(b, 5, Len(b))
         IN CASE tag = 0 -> KeyNextVersion
              [] tag = 1 ->
                    IF Len(rest) < 8 THEN Invalid
                    ELSE KeyTxnActive(VersionDecode(SubSeq(rest, 1, 8)))
              [] tag = 2 ->
                    IF Len(rest) < 16 THEN Invalid
                    ELSE LET n == FromLE(SubSeq(rest, 9, 16))
                         IN IF Len(rest) < 16 + n THEN Invalid
                            ELSE KeyTxnWrite(VersionDecode(SubSeq(rest, 1, 8)),
                                             SubSeq(rest, 17, 16 + n))
              [] tag = 3 ->
                    IF Len(rest) < 8 THEN Invalid
                    ELSE LET n == FromLE(SubSeq(rest, 1, 8))
                         IN IF Len(rest) < 16 + n THEN Invalid
                            ELSE KeyVersion(SubSeq(rest, 9, 8 + n),
                                            VersionDecode(SubSeq(rest, 9 + n, 16 + n)))
              [] OTHER -> Invalid

\* MvccKeyPrefix::encode, for the three prefixes the engine scans with.
PrefixTxnActive == VariantTag(1)
PrefixTxnWrite(v) == VariantTag(2) \o VersionEncode(v)
PrefixVersion(p) == VariantTag(3) \o BytesEncode(p)

\* ------------------------------------------------------------ the store

\* Storage::get: the value under a key, if any.
StorageHas(s, k) == k \in DOMAIN s

\* Storage::put.
StoragePut(s, k, v) == [x \in DOMAIN s \cup {k} |-> IF x = k THEN v ELSE s[x]]

\* Storage::delete (of an absent key: nothing).
StorageDelete(s, k) == [x \in DOMAIN s \ {k} |-> s[x]]

\* Storage::scan(lo..hi) and scan(lo..=hi): the keys in the byte range.
StorageScan(s, lo, hi, inclusive) ==
    {x \in DOMAIN s : LexLeq(lo, x) /\ (LexLess(x, hi) \/ (inclusive /\ x = hi))}

\* Storage::scan_prefix: the keys that start with the prefix.
StorageScanPrefix(s, p) == {x \in DOMAIN s : IsPrefixOf(p, x)}

\* The greatest key of a non-empty set in store order (Iterator::last, and
\* the first item of .rev()).
LastKey(S) == CHOOSE x \in S : \A y \in S : LexLeq(y, x)

\* A set of keys as the ascending sequence a scan yields.
RECURSIVE InOrder(_)
InOrder(S) ==
    IF S = {} THEN <<>>
    ELSE LET m == CHOOSE x \in S : \A y \in S : LexLeq(x, y)
         IN <<m>> \o InOrder(S \ {m})

\* Deleting each key of a set, one Storage::delete per key.
RECURSIVE StorageDeleteAll(_, _)
StorageDeleteAll(s, keys) ==
    IF keys = {} THEN s
    ELSE LET k == CHOOSE x \in keys : TRUE
         IN StorageDeleteAll(StorageDelete(s, k), keys \ {k})

EmptyStore == [x \in {} |-> <<>>]

\* ------------------------------------------------------------- the engine

\* Option<Vec<u8>>.
Some(bytes) == [some |-> TRUE, bytes |-> bytes]
None == [some |-> FALSE, bytes |-> <<>>]

\* struct Mvcc: the snapshot an instance owns (the storage handle is shared).
Mvcc(version, active) ==
    [current_version |-> version, active_versions |-> active, phase |-> "active"]

\* Mvcc::scan_active_txn: the versions of the TxnActive keys, or an internal
\* error when a scanned key decodes to another family.
ScanActiveTxn(s) ==
    LET keys == StorageScanPrefix(s, PrefixTxnActive)
    IN IF \E x \in keys : MvccKeyDecode(x).tag # "TxnActive"
       THEN [ok |-> FALSE, versions |-> {}]
       ELSE [ok |-> TRUE, versions |-> {MvccKeyDecode(x).version : x \in keys}]

\* Mvcc::is_version_visible.
IsVersionVisible(txn, version) ==
    version <= txn.current_version /\ version \notin txn.active_versions

\* The least element of a non-empty set of versions (Iterator::min).
MinVersion(S) == CHOOSE v \in S : \A w \in S : v <= w

\* Mvcc::begin, lines 108-118: the version the new instance gets, and the
\* store with NextVersion advanced.
NextVersionOf(s) ==
    IF StorageHas(s, MvccKeyEncode(KeyNextVersion))
    THEN VersionDecode(s[MvccKeyEncode(KeyNextVersion)])
    ELSE 1

\* Mvcc::write_inner, lines 174-200: the conflict check.  "ok", "conflict"
\* (WriteConflict) or "internal" (InternalError).
WriteCheck(s, txn, key) ==
    LET begin == IF txn.active_versions # {}
                 THEN MinVersion(txn.active_versions)
                 ELSE txn.current_version + 1
        begin_key == VersionKeyBytes(key, VersionEncode(begin))
        end_key == VersionKeyBytes(key, VersionMaxBytes)
        range == StorageScan(s, begin_key, end_key, TRUE)
    IN IF range = {} THEN "ok"
       ELSE LET found == MvccKeyDecode(LastKey(range))
            IN IF found.tag # "Version" THEN "internal"
               ELSE IF ~IsVersionVisible(txn, found.version) THEN "conflict"
               ELSE "ok"

\* Mvcc::write_inner, lines 202-216: the store after a write that passed the
\* check.
WriteApply(s, txn, key, value) ==
    LET logged == StoragePut(s, MvccKeyEncode(KeyTxnWrite(txn.current_version, key)), <<>>)
        vkey == MvccKeyEncode(KeyVersion(key, txn.current_version))
    IN IF value.some THEN StoragePut(logged, vkey, value.bytes)
       ELSE StorageDelete(logged, vkey)

\* Mvcc::get: the value of the first visible entry of the range
\* Version(key, 0) .. Version(key, current_version), walked from its end.
GetResult(s, txn, key) ==
    LET begin == VersionKeyBytes(key, VersionEncode(VersionMin))
        end == VersionKeyBytes(key, VersionEncode(txn.current_version))
        range == StorageScan(s, begin, end, FALSE)
        hits == {x \in range : MvccKeyDecode(x).tag = "Version"
                               /\ IsVersionVisible(txn, MvccKeyDecode(x).version)}
        bad == {x \in range : MvccKeyDecode(x).tag # "Version"}
    IN IF hits = {}
       THEN [res |-> IF bad = {} THEN "ok" ELSE "internal", value |-> None]
       ELSE IF \E x \in bad : LexLess(LastKey(hits), x)
            THEN [res |-> "internal", value |-> None]
            ELSE [res |-> "ok", value |-> Some(s[LastKey(hits)])]

\* A scan that keeps, of the visible entries of each logical key, only the
\* one of the greatest version.
ScanResultLatest(s, txn, prefix) ==
    LET keys == StorageScanPrefix(s, PrefixVersion(prefix))
        hits == {x \in keys : MvccKeyDecode(x).tag = "Version"
                              /\ IsVersionVisible(txn, MvccKeyDecode(x).version)}
        latest == {x \in hits : \A y \in hits :
                      MvccKeyDecode(y).key = MvccKeyDecode(x).key
                          => MvccKeyDecode(y).version <= MvccKeyDecode(x).version}
        order == InOrder(latest)
    IN IF \E x \in keys : MvccKeyDecode(x).tag # "Version"
       THEN [res |-> "internal", rows |-> <<>>]
       ELSE [res |-> "ok", rows |-> [i \in 1..Len(order) |-> <<order[i], s[order[i]]>>]]

\* Mvcc::scan_visible_versions: the (storage key, value) pairs of the visible
\* entries under the encoded prefix, in store order.
ScanResult(s, txn, prefix) ==
    LET keys == StorageScanPrefix(s, PrefixVersion(prefix))
        hits == {x \in keys : MvccKeyDecode(x).tag = "Version"
                              /\ IsVersionVisible(txn, MvccKeyDecode(x).version)}
        order == InOrder(hits)
    IN IF \E x \in keys : MvccKeyDecode(x).tag # "Version"
       THEN [res |-> "internal", rows |-> <<>>]
       ELSE [res |-> "ok", rows |-> [i \in 1..Len(order) |-> <<order[i], s[order[i]]>>]]

\* Mvcc::commit, lines 301-314, and Mvcc::rollback, lines 333-346: whether
\* every key of the scan of the write log of a version decodes to a TxnWrite
\* key; the call returns InternalError when one does not.
TxnWriteScanOk(s, version) ==
    \A x \in StorageScanPrefix(s, PrefixTxnWrite(version)) :
        MvccKeyDecode(x).tag = "TxnWrite"

\* Mvcc::commit, lines 301-314: what the write log of a version is mapped to
\* before the deletes, the key inside each TxnWrite entry.
CommitKeys(s, version) ==
    {MvccKeyDecode(x).key : x \in StorageScanPrefix(s, PrefixTxnWrite(version))}

\* Mvcc::commit, lines 316-322.
CommitApply(s, version) ==
    StorageDelete(StorageDeleteAll(s, CommitKeys(s, version)),
                  MvccKeyEncode(KeyTxnActive(version)))

\* Mvcc::rollback, lines 333-346: each TxnWrite entry of the version mapped
\* to the Version entry it logged.
RollbackKeys(s, version) ==
    {MvccKeyEncode(KeyVersion(MvccKeyDecode(x).key, version)) :
        x \in StorageScanPrefix(s, PrefixTxnWrite(version))}

\* Mvcc::rollback, lines 348-354.
RollbackApply(s, version) ==
    StorageDelete(StorageDeleteAll(s, RollbackKeys(s, version)),
                  MvccKeyEncode(KeyTxnActive(version)))

\* ------------------------------------------------------- the callers' inputs

\* An ordinary logical key, "a".
KeyA == <<97>>

\* Logical keys are arbitrary Vec<u8>: these two are the byte strings that
\* are also the storage keys of NextVersion and of TxnWrite(1, "a").
KeyRawNextVersion == MvccKeyEncode(KeyNextVersion)
KeyRawTxnWrite == MvccKeyEncode(KeyTxnWrite(1, KeyA))

\* Three keys under two prefixes: "a/1", "a/2" and "b/1".
KeyA1 == <<97, 47, 49>>
KeyA2 == <<97, 47, 50>>
KeyB1 == <<98, 47, 49>>

\* The prefixes a caller scans with: every leading part of a key it uses,
\* from the empty prefix to the whole key.
PrefixesOf(keys) == UNION {{SubSeq(k, 1, n) : n \in 0..Len(k)} : k \in keys}

\* The value a caller writes: one byte naming the instance that writes it
\* (values are opaque to the engine and stored verbatim).
ValueOf(t) == <<t>>

\* A store nothing has used yet.
FreshStore == EmptyStore

\* The store after 254 transactions that began and were committed without
\* writing: NextVersion holds 255, the last version whose encoding fits one
\* byte, and nothing else is left.
SeasonedStore ==
    StoragePut(EmptyStore, MvccKeyEncode(KeyNextVersion), VersionEncode(256 - 1))

Active(t) == t \in 1..Len(txns) /\ txns[t].phase = "active"

\* ------------------------------------------------------------------ states

InitOn(store, keys) ==
    /\ storage = store
    /\ userKeys = keys
    /\ txns = <<>>
    /\ log = <<>>
    /\ probe = <<>>

\* Runs on one key, ordinary or spelling NextVersion, over either store.
Init ==
    \E store \in {FreshStore, SeasonedStore}, keys \in {{KeyA}, {KeyRawNextVersion}} :
        InitOn(store, keys)

\* Runs on the key "a" and the key that spells TxnWrite(1, "a").
InitRawLog == InitOn(FreshStore, {KeyA, KeyRawTxnWrite})

\* Runs on the keys "a/1", "a/2" and "b/1".
InitPrefix == InitOn(FreshStore, {KeyA1, KeyA2, KeyB1})

\* Mvcc::begin, in a run that opens at most limit instances.
Begin(limit) ==
    /\ Len(txns) < limit
    /\ LET next_version == NextVersionOf(storage)
           advanced == StoragePut(storage, MvccKeyEncode(KeyNextVersion),
                                  VersionEncode(next_version + 1))
           marked == StoragePut(advanced, MvccKeyEncode(KeyTxnActive(next_version)), <<>>)
           scanned == ScanActiveTxn(marked)
       IN /\ storage' = marked
          /\ IF scanned.ok
             THEN /\ txns' = Append(txns, Mvcc(next_version, scanned.versions))
                  /\ log' = Append(log, [resolvedAt |-> 0, sets |-> {}, dels |-> {}])
             ELSE UNCHANGED <<txns, log>>
    /\ UNCHANGED <<userKeys, probe>>

\* A write that records its TxnWrite marker before the conflict check
\* instead of after it.
WriteInnerLogFirst(t, key, value) ==
    /\ IF WriteCheck(storage, txns[t], key) = "ok"
       THEN /\ storage' = WriteApply(storage, txns[t], key, value)
            /\ log' = [log EXCEPT ![t].sets = IF value.some THEN @ \cup {key} ELSE @,
                                  ![t].dels = IF value.some THEN @ ELSE @ \cup {key}]
       ELSE /\ storage' = StoragePut(storage,
                               MvccKeyEncode(KeyTxnWrite(txns[t].current_version, key)), <<>>)
            /\ UNCHANGED log
    /\ UNCHANGED <<txns, userKeys, probe>>

\* Mvcc::write_inner, as called by set (Some) and delete (None): on a
\* conflict or an internal error it returns before it has written anything.
WriteInner(t, key, value) ==
    /\ IF WriteCheck(storage, txns[t], key) = "ok"
       THEN /\ storage' = WriteApply(storage, txns[t], key, value)
            /\ log' = [log EXCEPT ![t].sets = IF value.some THEN @ \cup {key} ELSE @,
                                  ![t].dels = IF value.some THEN @ ELSE @ \cup {key}]
       ELSE UNCHANGED <<storage, log>>
    /\ UNCHANGED <<txns, userKeys, probe>>

\* Mvcc::set.
Set(t, key) == Active(t) /\ WriteInner(t, key, Some(ValueOf(t)))

\* Mvcc::delete.
Delete(t, key) == Active(t) /\ WriteInner(t, key, None)

\* Mvcc::get: a read, GetResult is what it returns.
Get(t, key) ==
    /\ Active(t)
    /\ GetResult(storage, txns[t], key).res \in {"ok", "internal"}
    /\ UNCHANGED vars

\* Mvcc::scan_visible_versions: a read, ScanResult is what it returns.
Scan(t, prefix) ==
    /\ Active(t)
    /\ ScanResult(storage, txns[t], prefix).res \in {"ok", "internal"}
    /\ UNCHANGED vars

\* Mvcc::commit; on an InternalError it returns before it has deleted
\* anything.
Commit(t) ==
    /\ Active(t)
    /\ IF TxnWriteScanOk(storage, txns[t].current_version)
       THEN /\ storage' = CommitApply(storage, txns[t].current_version)
            /\ txns' = [txns EXCEPT ![t].phase = "committed"]
            /\ log' = [log EXCEPT ![t].resolvedAt = Len(txns)]
       ELSE UNCHANGED <<storage, txns, log>>
    /\ UNCHANGED <<userKeys, probe>>

\* Mvcc::rollback; on an InternalError it returns before it has deleted
\* anything.
Rollback(t) ==
    /\ Active(t)
    /\ IF TxnWriteScanOk(storage, txns[t].current_version)
       THEN /\ storage' = RollbackApply(storage, txns[t].current_version)
            /\ txns' = [txns EXCEPT ![t].phase = "rolledback"]
            /\ log' = [log EXCEPT ![t].resolvedAt = Len(txns)]
       ELSE UNCHANGED <<storage, txns, log>>
    /\ UNCHANGED <<userKeys, probe>>

Step(limit) ==
    \/ Begin(limit)
    \/ \E t \in 1..limit, key \in userKeys : Set(t, key)
    \/ \E t \in 1..limit, key \in userKeys : Delete(t, key)
    \/ \E t \in 1..limit, key \in userKeys : Get(t, key)
    \/ \E t \in 1..limit, prefix \in PrefixesOf(userKeys) : Scan(t, prefix)
    \/ \E t \in 1..limit : Commit(t)
    \/ \E t \in 1..limit : Rollback(t)

Next == Step(MaxTxns)

Spec == Init /\ [][Next]_vars

\* The two-key runs open one instance fewer.
NextRawLog == Step(MaxTxns - 1)

SpecRawLog == InitRawLog /\ [][NextRawLog]_vars

\* So do the three-key runs.
SpecPrefix == InitPrefix /\ [][NextRawLog]_vars

\* ------------------------------------------------------------ the key codec

\* MvccKeyPrefix, the prefixes of the four families.
PrefixKeyNextVersion == [tag |-> "NextVersion"]
PrefixKeyTxnActive == [tag |-> "TxnActive"]
PrefixKeyTxnWrite(v) == [tag |-> "TxnWrite", version |-> v]
PrefixKeyVersion(p) == [tag |-> "Version", key |-> p]

\* MvccKeyPrefix::encode.
MvccKeyPrefixEncode(prefix) ==
    CASE prefix.tag = "NextVersion" -> VariantTag(0)
      [] prefix.tag = "TxnActive" -> PrefixTxnActive
      [] prefix.tag = "TxnWrite" -> PrefixTxnWrite(prefix.version)
      [] prefix.tag = "Version" -> PrefixVersion(prefix.key)

\* The versions the codec is tried on: one, the last that fits one byte and
\* the first that does not.
ProbeVersions == {1, 256 - 1, 256}

\* The caller keys and prefixes the codec is tried on: "", "a" and "ab".
ProbeBytes == {<<>>, <<97>>, <<97, 98>>}

\* The logical keys the codec is tried on, of all four families.
ProbeKeys ==
    {KeyNextVersion}
        \cup {KeyTxnActive(v) : v \in ProbeVersions}
        \cup {KeyTxnWrite(v, k) : v \in ProbeVersions, k \in ProbeBytes}
        \cup {KeyVersion(k, v) : k \in ProbeBytes, v \in ProbeVersions}

\* The prefixes the codec is tried on.
ProbePrefixes ==
    {PrefixKeyNextVersion, PrefixKeyTxnActive}
        \cup {PrefixKeyTxnWrite(v) : v \in ProbeVersions}
        \cup {PrefixKeyVersion(p) : p \in ProbeBytes}

\* Not encoded yet (no encoding is empty), not decoded yet.
NotEncoded == <<>>
NotDecoded == [tag |-> "NotDecoded"]

\* Two logical keys and a prefix, before the codec has seen them.
InitCodec ==
    /\ storage = FreshStore
    /\ userKeys = {}
    /\ txns = <<>>
    /\ log = <<>>
    /\ \E a \in ProbeKeys, b \in ProbeKeys, p \in ProbePrefixes :
           probe = [keys |-> <<a, b>>, prefix |-> p,
                    encoded |-> <<NotEncoded, NotEncoded>>,
                    encodedPrefix |-> NotEncoded,
                    decoded |-> <<NotDecoded, NotDecoded>>]

\* MvccKey::encode of the i-th key.
Encode(i) ==
    /\ probe.encoded[i] = NotEncoded
    /\ probe' = [probe EXCEPT !.encoded[i] = MvccKeyEncode(probe.keys[i])]
    /\ UNCHANGED <<storage, txns, userKeys, log>>

\* MvccKeyPrefix::encode of the prefix.
EncodePrefix ==
    /\ probe.encodedPrefix = NotEncoded
    /\ probe' = [probe EXCEPT !.encodedPrefix = MvccKeyPrefixEncode(probe.prefix)]
    /\ UNCHANGED <<storage, txns, userKeys, log>>

\* MvccKey::decode of the bytes the i-th key was encoded to.
Decode(i) ==
    /\ probe.encoded[i] # NotEncoded
    /\ probe.decoded[i] = NotDecoded
    /\ probe' = [probe EXCEPT !.decoded[i] = MvccKeyDecode(probe.encoded[i])]
    /\ UNCHANGED <<storage, txns, userKeys, log>>

NextCodec ==
    \/ \E i \in 1..2 : Encode(i)
    \/ EncodePrefix
    \/ \E i \in 1..2 : Decode(i)

SpecCodec == InitCodec /\ [][NextCodec]_vars

\* ------------------------------------------------------------ the claims

\* The instances begun so far, in begin order.
Tids == 1..Len(txns)

\* b committed before a began: when b committed, fewer than a instances had
\* begun.
CommittedBefore(b, a) ==
    txns[b].phase = "committed" /\ log[b].resolvedAt < a

\* The step in which instance t commits, or rolls back.
CommitsIn(t) == Active(t) /\ txns'[t].phase = "committed"
RollsBackIn(t) == Active(t) /\ txns'[t].phase = "rolledback"

\* The Version entries of a store.
VersionEntries(s) == {x \in DOMAIN s : MvccKeyDecode(x).tag = "Version"}

\* The instance a begin on store s would return.
BeginOn(s) ==
    LET next_version == NextVersionOf(s)
    IN Mvcc(next_version,
            ScanActiveTxn(StoragePut(s, MvccKeyEncode(KeyTxnActive(next_version)),
                                     <<>>)).versions)

\* The values of the rows a scan returns.
RowValues(rows) == {rows[i][2] : i \in 1..Len(rows)}

\* C1 -- Snapshot isolation: when A began before B committed (B committed
\* after A's begin, or has not committed), no get(k) and no
\* scan_visible_versions(p) of A returns a value that B wrote.
C1_SnapshotIsolation ==
    \A a \in Tids : \A b \in Tids \ {a} :
        (Active(a) /\ ~CommittedBefore(b, a)) =>
            /\ \A k \in userKeys :
                   GetResult(storage, txns[a], k).value # Some(ValueOf(b))
            /\ \A p \in userKeys \cup {<<>>} :
                   ValueOf(b) \notin RowValues(ScanResult(storage, txns[a], p).rows)

\* C2 -- First-writer-wins: when B's version is not visible to A, and B has
\* set k and has not rolled back, a set(k, _) or delete(k) by A returns
\* WriteConflict.
C2_FirstWriterWins ==
    \A a \in Tids : \A b \in Tids \ {a} : \A k \in userKeys :
        (/\ Active(a)
         /\ ~IsVersionVisible(txns[a], txns[b].current_version)
         /\ k \in log[b].sets
         /\ txns[b].phase # "rolledback")
        => WriteCheck(storage, txns[a], k) = "conflict"

\* C3 -- Commit exposes writes: get(k) by B returns the value of the
\* highest-version set on k among the transactions that committed before B
\* began (so the value A set, when A committed before B began and no
\* transaction of a greater version did).
C3_CommitExposesWrites ==
    \A b \in Tids : \A k \in userKeys :
        LET writers == {a \in Tids \ {b} : k \in log[a].sets /\ CommittedBefore(a, b)}
            top == CHOOSE a \in writers : \A c \in writers :
                       txns[c].current_version <= txns[a].current_version
        IN (Active(b) /\ writers # {}) =>
               GetResult(storage, txns[b], k).value = Some(ValueOf(top))

\* C4 -- Rollback undoes writes: the rollback of T leaves no
\* Version(k, T.version) entry for a key k that T set, leaves every Version
\* entry of another version as it was, and a transaction that begins next
\* gets from get(k), for a key k that T set, what it gets from the store
\* without the entries T wrote.
C4_RollbackUndoesWrites ==
    [][\A t \in Tids : RollsBackIn(t) =>
         LET v == txns[t].current_version
             mine == {MvccKeyEncode(KeyVersion(k, v)) : k \in log[t].sets}
             others == {x \in VersionEntries(storage) \cup VersionEntries(storage') :
                            MvccKeyDecode(x).version # v}
         IN /\ \A x \in mine : ~StorageHas(storage', x)
            /\ \A x \in others :
                   /\ StorageHas(storage, x) /\ StorageHas(storage', x)
                   /\ storage'[x] = storage[x]
            /\ \A k \in log[t].sets :
                   GetResult(storage', BeginOn(storage'), k)
                       = GetResult(StorageDeleteAll(storage, mine), BeginOn(storage'), k)
      ]_vars

\* C5 -- Monotonic version allocation: the versions of the instances are
\* strictly increasing in begin order (so pairwise distinct), and the
\* stored NextVersion, once written, stays and never decreases.
C5_MonotonicVersions ==
    [][/\ \A i \in 1..Len(txns') : \A j \in 1..Len(txns') :
              i < j => txns'[i].current_version < txns'[j].current_version
       /\ StorageHas(storage, MvccKeyEncode(KeyNextVersion)) =>
              /\ StorageHas(storage', MvccKeyEncode(KeyNextVersion))
              /\ NextVersionOf(storage) <= NextVersionOf(storage')
      ]_vars

\* C6 -- Commit removes the write log: after the commit of version v the
\* store holds no TxnWrite(v, k) entry.
C6_CommitRemovesWriteLog ==
    [][\A t \in Tids : CommitsIn(t) =>
         StorageScanPrefix(storage', PrefixTxnWrite(txns[t].current_version)) = {}
      ]_vars

\* C7 -- Rollback removes the write log: after the rollback of version v
\* the store holds no TxnWrite(v, k) entry.
C7_RollbackRemovesWriteLog ==
    [][\A t \in Tids : RollsBackIn(t) =>
         StorageScanPrefix(storage', PrefixTxnWrite(txns[t].current_version)) = {}
      ]_vars

\* C8 -- Active-marker lifecycle: in every state the versions that have a
\* TxnActive entry are exactly the versions of the instances that have
\* begun and have neither committed nor rolled back.
C8_ActiveMarkers ==
    ScanActiveTxn(storage).versions = {txns[t].current_version : t \in {u \in Tids : Active(u)}}

\* C9 -- Write-conflict only against others: set(k, _) or delete(k) by T
\* returns WriteConflict only if an instance other than T, of a version not
\* visible to T, has set k and its Version(k, .) entry is in the store.
C9_ConflictOnlyWithOthers ==
    \A t \in Tids : \A k \in userKeys :
        (Active(t) /\ WriteCheck(storage, txns[t], k) = "conflict") =>
            \E b \in Tids \ {t} :
                /\ ~IsVersionVisible(txns[t], txns[b].current_version)
                /\ k \in log[b].sets
                /\ StorageHas(storage, MvccKeyEncode(KeyVersion(k, txns[b].current_version)))

\* C10 -- Delete takes part in conflict detection: while A is active and
\* has deleted k, a set(k, _) or delete(k) by another active instance B
\* returns WriteConflict; and two active instances have never both written
\* (set or deleted) the same key.
C10_DeleteConflicts ==
    \A a \in Tids : \A b \in Tids \ {a} :
        (Active(a) /\ Active(b)) =>
            /\ \A k \in log[a].dels : WriteCheck(storage, txns[b], k) = "conflict"
            /\ (log[a].sets \cup log[a].dels) \cap (log[b].sets \cup log[b].dels) = {}

\* The logical keys of the rows of a scan, in the order of the rows.
RowKeys(rows) == [i \in 1..Len(rows) |-> MvccKeyDecode(rows[i][1]).key]

\* The keys that instances which committed before t began have set.
CommittedKeys(t) ==
    {k \in userKeys : \E a \in Tids \ {t} : k \in log[a].sets /\ CommittedBefore(a, t)}

\* C11 -- Prefix-scan correctness: scan_visible_versions(p) by a transaction
\* returns an entry for exactly the keys that start with p among those set
\* and committed before it began, in ascending key order.
C11_PrefixScan ==
    \A t \in Tids : \A p \in PrefixesOf(userKeys) :
        Active(t) =>
            LET keys == RowKeys(ScanResult(storage, txns[t], p).rows)
            IN /\ {keys[i] : i \in 1..Len(keys)}
                      = {k \in CommittedKeys(t) : IsPrefixOf(p, k)}
               /\ \A i \in 1..Len(keys) : \A j \in 1..Len(keys) :
                      i < j => LexLeq(keys[i], keys[j])

\* Both keys of the probe are encoded.
BothEncoded == probe.encoded[1] # NotEncoded /\ probe.encoded[2] # NotEncoded

\* C12 -- Order-preservation of the key encoding: for every key k and all
\* versions v1 < v2, 256 and above included, the encoding of Version(k, v1)
\* is lexicographically strictly smaller than that of Version(k, v2).
C12_OrderPreservation ==
    LET a == probe.keys[1]
        b == probe.keys[2]
    IN (/\ BothEncoded
        /\ a.tag = "Version" /\ b.tag = "Version"
        /\ a.key = b.key /\ a.version < b.version)
           => LexLess(probe.encoded[1], probe.encoded[2])

\* The full keys the claim puts under a prefix: those of its family, with
\* its version (TxnWrite) or with a key that starts with it (Version).
Covers(prefix, key) ==
    /\ prefix.tag = key.tag
    /\ prefix.tag = "TxnWrite" => prefix.version = key.version
    /\ prefix.tag = "Version" => IsPrefixOf(prefix.key, key.key)

\* C13 -- Prefix encoding: the encoding of a prefix is a byte-prefix of the
\* encoding of every full key of its family that it covers (every
\* TxnActive(v); every TxnWrite(v, k) with its v; every Version(k, v) whose
\* k starts with it), and of no full key of another family.
C13_PrefixEncoding ==
    (probe.encoded[1] # NotEncoded /\ probe.encodedPrefix # NotEncoded) =>
        /\ Covers(probe.prefix, probe.keys[1])
              => IsPrefixOf(probe.encodedPrefix, probe.encoded[1])
        /\ probe.prefix.tag # probe.keys[1].tag
              => ~IsPrefixOf(probe.encodedPrefix, probe.encoded[1])

\* C14 -- Key-encoding round-trip and injectivity: decode(encode(key)) is
\* key for every logical key of the four families; equal keys encode to
\* equal bytes and different keys to different bytes.
C14_RoundTrip ==
    /\ \A i \in 1..2 : probe.decoded[i] # NotDecoded => probe.decoded[i] = probe.keys[i]
    /\ BothEncoded =>
          (probe.keys[1] = probe.keys[2] <=> probe.encoded[1] = probe.encoded[2])

\* A Version key of two-byte version came back from the codec, next to the
\* encoding of another key.
C14_Witness ==
    /\ BothEncoded
    /\ probe.keys[1] = KeyVersion(<<97, 98>>, 256)
    /\ probe.keys[2] = KeyTxnWrite(256, <<97, 98>>)
    /\ probe.decoded[1] = probe.keys[1]
    /\ probe.decoded[2] = probe.keys[2]

\* The versions of the entries Version(key, v) of a store that instance txn
\* may read: below its own and not in its snapshot.
ReadableVersions(s, txn, key) ==
    {MvccKeyDecode(x).version :
        x \in {y \in VersionEntries(s) :
                  /\ MvccKeyDecode(y).key = key
                  /\ MvccKeyDecode(y).version < txn.current_version
                  /\ MvccKeyDecode(y).version \notin txn.active_versions}}

\* The greatest element of a non-empty set of versions.
MaxVersion(S) == CHOOSE v \in S : \A w \in S : w <= v

\* C15 -- Point read: get(k) by a transaction returns the value of the entry
\* Version(k, v) with the numerically greatest v below its current_version
\* and outside its active_versions, or not-found when there is none.
C15_PointRead ==
    \A t \in Tids : \A k \in userKeys :
        Active(t) =>
            LET readable == ReadableVersions(storage, txns[t], k)
                got == GetResult(storage, txns[t], k)
            IN /\ got.res = "ok"
               /\ got.value =
                      IF readable = {} THEN None
                      ELSE Some(storage[MvccKeyEncode(KeyVersion(k, MaxVersion(readable)))])

\* The versions of the instances that are begun and neither committed nor
\* rolled back.
ActiveVersionsOf(ts) == {ts[t].current_version : t \in {u \in 1..Len(ts) : ts[u].phase = "active"}}

\* C16 -- Begin snapshot: the active_versions of a transaction are exactly
\* the versions with a TxnActive entry when its begin ran, which are those of
\* the transactions begun and not yet committed or rolled back; they contain
\* its own version and none greater, and never change afterwards.
C16_BeginSnapshot ==
    [][/\ Len(txns') = Len(txns) + 1 =>
              LET new == txns'[Len(txns')]
              IN /\ new.active_versions = ScanActiveTxn(storage').versions
                 /\ new.active_versions = ActiveVersionsOf(txns')
                 /\ new.current_version \in new.active_versions
                 /\ \A v \in new.active_versions : v <= new.current_version
       /\ \A t \in Tids :
              /\ txns'[t].active_versions = txns[t].active_versions
              /\ txns'[t].current_version = txns[t].current_version]_vars

\* C17 -- A failed write changes nothing: when set(k, _) or delete(k) of a
\* transaction returns WriteConflict the store is exactly as before the call,
\* the transaction is still active, and its commit or rollback still
\* succeeds.
C17_FailedWriteChangesNothing ==
    [][\A t \in Tids : \A k \in userKeys :
          (/\ Active(t)
           /\ WriteCheck(storage, txns[t], k) = "conflict"
           /\ Set(t, k) \/ Delete(t, k))
              => /\ storage' = storage
                 /\ txns' = txns
                 /\ TxnWriteScanOk(storage', txns[t].current_version)]_vars

\* A transaction that has set one key is refused another, which a concurrent
\* transaction has set; its own marker and its own entry are in the store.
C17_Witness ==
    \E t \in Tids : \E u \in Tids \ {t} : \E k \in userKeys : \E own \in userKeys \ {k} :
        /\ Active(t) /\ Active(u)
        /\ k \in log[u].sets
        /\ own \in log[t].sets
        /\ WriteCheck(storage, txns[t], k) = "conflict"
        /\ StorageHas(storage, MvccKeyEncode(KeyTxnActive(txns[t].current_version)))
        /\ StorageHas(storage, MvccKeyEncode(KeyVersion(own, txns[t].current_version)))

\* The bookkeeping entries of a version: its TxnActive marker and its
\* TxnWrite markers.
IsBookkeepingOf(x, version) ==
    LET key == MvccKeyDecode(x)
    IN key.tag \in {"TxnActive", "TxnWrite"} /\ key.version = version

\* C18 -- Commit only removes bookkeeping: a commit of the transaction of
\* version v adds no entry and leaves every entry that is neither
\* TxnWrite(v, .) nor TxnActive(v) in the store with its value: every Version
\* entry, NextVersion, and the markers of other transactions, whatever keys
\* the transaction wrote.
C18_CommitFrame ==
    [][\A t \in Tids :
          CommitsIn(t) =>
              /\ DOMAIN storage' \subseteq DOMAIN storage
              /\ \A x \in DOMAIN storage :
                     ~IsBookkeepingOf(x, txns[t].current_version)
                         => StorageHas(storage', x) /\ storage'[x] = storage[x]]_vars

\* The Version entries of a store for one logical key.
VersionEntriesOf(s, key) == {x \in VersionEntries(s) : MvccKeyDecode(x).key = key}

\* What the claim says a read finds after a committed delete: a set k and
\* committed, then d began, deleted k and committed, then r began; nobody
\* else has set k.  r still gets the value a set.
ReadsThroughDelete ==
    \A a \in Tids : \A d \in Tids \ {a} : \A r \in Tids \ {a, d} : \A k \in userKeys :
        (/\ k \in log[a].sets /\ CommittedBefore(a, d)
         /\ k \in log[d].dels /\ CommittedBefore(d, r)
         /\ \A u \in Tids \ {a} : k \notin log[u].sets
         /\ Active(r))
            => GetResult(storage, txns[r], k).value = Some(ValueOf(a))

\* C19 -- Delete writes no tombstone: a delete(k) by the transaction of
\* version v adds no Version(k, v) entry and leaves every Version(k, v') of
\* another version unchanged; so after x was committed for k and a later
\* transaction deleted k and committed, a transaction that begins after that
\* commit still gets x from get(k).
C19_NoTombstone ==
    [][/\ \A t \in Tids : \A k \in userKeys :
              (/\ Active(t)
               /\ WriteCheck(storage, txns[t], k) = "ok"
               /\ Delete(t, k))
                  => LET own == MvccKeyEncode(KeyVersion(k, txns[t].current_version))
                     IN /\ ~StorageHas(storage', own)
                        /\ \A x \in VersionEntriesOf(storage, k) \ {own} :
                               StorageHas(storage', x) /\ storage'[x] = storage[x]
                        /\ VersionEntriesOf(storage', k) \subseteq VersionEntriesOf(storage, k)
       /\ ReadsThroughDelete']_vars

\* The entries a scan of instance txn with a prefix is to return: the Version
\* entries whose storage key starts with the encoded prefix and whose version
\* the instance sees.
VisibleUnder(s, txn, prefix) ==
    {x \in VersionEntries(s) :
        /\ IsPrefixOf(PrefixVersion(prefix), x)
        /\ IsVersionVisible(txn, MvccKeyDecode(x).version)}

====
